---- MODULE Spec2Model ----
(***************************************************************************)
(* NatManager (src/src/nat-manager.ts): the NAT traversal manager of       *)
(* js-libp2p.  One instance, its detached mapping task (_start), the       *)
(* stop() calls of the host, and the gateway client(s) the task creates.   *)
(*                                                                         *)
(* JavaScript runs one synchronous segment at a time: every action below   *)
(* is one such segment, from a call or the settling of an awaited promise  *)
(* to the next await.  Optional values (x?: T, undefined) are sequences of *)
(* length at most one: <<>> is undefined, <<v>> is v.                      *)
(***************************************************************************)
EXTENDS Integers, Sequences, FiniteSets, TLC

(* ------------------------------ bounds -------------------------------- *)
MaxAddrs == 2        \* bound addresses reported by getAddrs()
MaxStops == 2        \* stop() calls of the host
TtlSpread == 2       \* the constructor is tried on every ttl within TtlSpread of DEFAULT_TTL

(* ------------------------- program constants -------------------------- *)
DEFAULT_TTL == 7200
MinPort == 1024
MaxPort == 65535

(* ------------------------------ inputs -------------------------------- *)
\* init.ttl as passed to the constructor: omitted, or a number of seconds
TtlInputs == {<<>>, <<DEFAULT_TTL - 1>>}

\* init.ttl for the specification of the constructor alone
CtorTtlInputs ==
  {<<>>, <<0>>} \cup { <<t>> : t \in (DEFAULT_TTL - TtlSpread)..(DEFAULT_TTL + TtlSpread) }

\* strings a public IP can be: externalAddress overrides, externalIp() results
PublicIps == {"203.0.113.7"}
PrivateIps == {"10.0.0.5"}
NotIps == {"gateway.local"}
IpStrings == PublicIps \cup PrivateIps \cup NotIps

\* values of Math.random(), each a pair <<numerator, denominator>>
RandomSamples == {<<0, 2>>, <<1, 2>>}

LocalAddressInputs == {<<>>, <<"192.168.1.10">>}

\* the init argument of the constructor: every combination of enabled,
\* externalAddress and localAddress with ttl omitted, and every ttl with
\* externalAddress and localAddress omitted
Inits ==
  { c \in [enabled : BOOLEAN,
            externalAddress : {<<>>} \cup { <<s>> : s \in IpStrings },
            localAddress : LocalAddressInputs,
            ttl : TtlInputs] :
      c.ttl # <<>> => (c.externalAddress = <<>> /\ c.localAddress = <<>>) }

\* the init argument for the specification of the constructor alone
CtorInits ==
  [enabled : BOOLEAN,
   externalAddress : {<<>>} \cup { <<s>> : s \in IpStrings },
   localAddress : LocalAddressInputs,
   ttl : CtorTtlInputs]

\* a bound multiaddr, as the facts toOptions(), isThinWaistAddress() and
\* isLoopback() read from it
Addr(thin, family, host, port, transport) ==
  [thinWaist |-> thin, family |-> family, host |-> host, port |-> port,
   transport |-> transport]

AddrSamples ==
  { Addr(TRUE, 4, "192.168.1.10", 4001, "tcp"),      \* /ip4/192.168.1.10/tcp/4001
    Addr(TRUE, 4, "127.0.0.1", 4002, "tcp"),         \* /ip4/127.0.0.1/tcp/4002
    Addr(TRUE, 6, "fe80::1", 4003, "tcp"),           \* /ip6/fe80::1/tcp/4003
    Addr(TRUE, 4, "192.168.1.10", 4004, "udp"),      \* /ip4/192.168.1.10/udp/4004
    Addr(FALSE, 4, "192.168.1.10", 4005, "tcp") }    \* /ip4/192.168.1.10/tcp/4005/ws

SeqsUpTo(S, n) == UNION { [1..k -> S] : k \in 0..n }

AddrLists == SeqsUpTo(AddrSamples, MaxAddrs)

(* --------------------------- pure functions --------------------------- *)
\* x ?? d
OrElse(x, d) == IF x = <<>> THEN d ELSE x[1]

\* mutant: highPort without `+ min`
highPort_NoMin(min, max, r) == (r[1] * (max - min + 1)) \div r[2]

\* highPort(min, max) with Math.random() = r[1] / r[2]:
\* Math.floor(Math.random() * (max - min + 1) + min)
highPort(min, max, r) == ((r[1] * (max - min + 1)) \div r[2]) + min

\* isPrivateIp(ip): "true", "false", or "null" when ip is no IP address
isPrivateIp(ip) ==
  IF ip \in PrivateIps THEN "true"
  ELSE IF ip \in PublicIps THEN "false"
  ELSE "null"

\* isLoopback(addr)
isLoopback(addr) == addr.host \in {"127.0.0.1", "::1"}

\* mutant: the transport compared without toUpperCase()
toUpperCase_Identity(s) == s

\* transport.toUpperCase()
toUpperCase(s) == IF s = "tcp" THEN "TCP" ELSE IF s = "udp" THEN "UDP" ELSE s

\* mutant: the loop without the `family !== 4` test
Eligible_AllowsIpv6(addr) ==
  /\ ~(~addr.thinWaist \/ addr.transport # "tcp")
  /\ ~isLoopback(addr)

\* the three `continue` tests of the loop of _start, negated
Eligible(addr) ==
  /\ ~(~addr.thinWaist \/ addr.transport # "tcp")
  /\ ~isLoopback(addr)
  /\ ~(addr.family # 4)

\* mutant: the loop starts over from the first address
NextEligible_FromStart(as, from) ==
  LET S == { j \in 1..Len(as) : Eligible(as[j]) }
  IN IF S = {} THEN Len(as) + 1 ELSE CHOOSE j \in S : \A k \in S : j <= k

\* the first index >= from whose address passes the tests, or Len + 1
NextEligible(as, from) ==
  LET S == { j \in from..Len(as) : Eligible(as[j]) }
  IN IF S = {} THEN Len(as) + 1 ELSE CHOOSE j \in S : \A k \in S : j <= k

\* fromNodeAddress({family, address, port}, transport)
fromNodeAddress(family, address, port, transport) ==
  [family |-> family, address |-> address, port |-> port, transport |-> transport]

(* ------------------------------- state -------------------------------- *)
VARIABLES
  isBrowser,        \* wherearewe.isBrowser: no raw network capability
  inst,             \* "none": not constructed; "ok": instance; "threw": constructor threw
  initTtl,          \* init.ttl as it was passed to the constructor
  enabled, externalAddress, localAddress, ttl,   \* this.* readonly fields
  started,          \* this.started
  client,           \* this.client: <<>> or <<id>>
  pc,               \* where the promise of _start() stands
  addrs,            \* _start: const addrs
  i,                \* _start: index in addrs of the address of the current iteration
  tclient,          \* _start: const client (0 while unset), the value _getClient() returned
  publicIp,         \* _start: const publicIp ("" while unset)
  publicPort,       \* _start: const publicPort (0 while unset)
  factoryCalls,     \* upnpNat() invocations
  clients,          \* gateway clients created: id -> [closeCalls, closed]
  extIpCalls,       \* client.externalIp() invocations, in order
  resolved,         \* the public IP found for an address, in order: [idx, ip]
  mapReqs,          \* client.map() invocations, in order
  mapped,           \* indices of the addresses whose map() resolved, in order
  registry,         \* addressManager: observed addresses added, in order
  observedFor,      \* for each registry entry, the index of the bound address it is for
  errLog,           \* log.error() calls, in order
  returnedEarly,    \* has an afterStart() call returned at its first test
  spawned,          \* _start() invocations
  stopLog           \* stop() calls, in order: what each saw and how it ended

cfgVars == <<initTtl, enabled, externalAddress, localAddress, ttl>>
taskVars == <<pc, addrs, i, tclient, publicIp, publicPort>>
gwVars == <<factoryCalls, clients, extIpCalls, resolved, mapReqs, mapped>>
regVars == <<registry, observedFor>>
hostVars == <<returnedEarly, spawned>>
vars == <<isBrowser, inst, cfgVars, started, client, taskVars, gwVars, regVars,
          errLog, hostVars, stopLog>>

Init ==
  /\ isBrowser \in BOOLEAN
  /\ inst = "none"
  /\ initTtl = <<>>
  /\ enabled = FALSE
  /\ externalAddress = <<>>
  /\ localAddress = <<>>
  /\ ttl = 0
  /\ started = FALSE
  /\ client = <<>>
  /\ pc = "none"
  /\ addrs = <<>>
  /\ i = 0
  /\ tclient = 0
  /\ publicIp = ""
  /\ publicPort = 0
  /\ factoryCalls = 0
  /\ clients = <<>>
  /\ extIpCalls = <<>>
  /\ resolved = <<>>
  /\ mapReqs = <<>>
  /\ mapped = <<>>
  /\ registry = <<>>
  /\ observedFor = <<>>
  /\ errLog = <<>>
  /\ returnedEarly = FALSE
  /\ spawned = 0
  /\ stopLog = <<>>

(* ----------------------------- constructor ---------------------------- *)
\* mutant: the test off by one, `<=`
TtlTooSmall_OffByOne(t) == t <= DEFAULT_TTL

\* the test of `if (this.ttl < DEFAULT_TTL) throw`
TtlTooSmall(t) == t < DEFAULT_TTL

\* new NatManager(components, init)
Construct(init) ==
  /\ inst = "none"
  /\ started' = FALSE
  /\ enabled' = init.enabled
  /\ externalAddress' = init.externalAddress
  /\ localAddress' = init.localAddress
  /\ initTtl' = init.ttl
  /\ ttl' = OrElse(init.ttl, DEFAULT_TTL)
  /\ inst' = IF TtlTooSmall(ttl') THEN "threw" ELSE "ok"
  /\ UNCHANGED <<isBrowser, client, taskVars, gwVars, regVars, errLog, hostVars, stopLog>>

\* start(): an empty body
Start ==
  /\ inst = "ok"
  /\ UNCHANGED vars

(* --------------------------- the mapping task ------------------------- *)
\* the task ends: its promise resolves
TaskDone ==
  /\ pc' = "done"
  /\ tclient' = 0
  /\ publicIp' = ""
  /\ publicPort' = 0

\* mutant: no .catch() on the promise of _start(): the rejection is not logged
TaskFail_NoCatch(err) ==
  /\ pc' = "failed"
  /\ tclient' = 0
  /\ publicIp' = ""
  /\ publicPort' = 0
  /\ errLog' = errLog

\* the task throws: its promise rejects and the .catch() of afterStart logs
TaskFail(err) ==
  /\ pc' = "failed"
  /\ tclient' = 0
  /\ publicIp' = ""
  /\ publicPort' = 0
  /\ errLog' = Append(errLog, err)

\* _getClient() up to its return or its await
GetClient ==
  IF client # <<>>
    THEN /\ tclient' = client[1]
         /\ pc' = "gotClient"
         /\ factoryCalls' = factoryCalls
    ELSE /\ tclient' = 0
         /\ pc' = "creating"
         /\ factoryCalls' = factoryCalls + 1

\* the for loop of _start over as, from index `from` up to its next await:
\* ineligible addresses are passed over, the first eligible one asks for the
\* client, and the end of the list ends the task.  Leaves errLog to the caller.
Loop(as, from) ==
  LET j == NextEligible(as, from) IN
  /\ i' = j
  /\ IF j > Len(as)
       THEN TaskDone /\ factoryCalls' = factoryCalls
       ELSE GetClient /\ publicIp' = "" /\ publicPort' = 0

\* afterStart()
\* mutant: the early return without the `!this.enabled` test
AfterStartReturns_IgnoresEnabled == isBrowser \/ started

\* mutant: the early return without the `this.started` test
AfterStartReturns_IgnoresStarted == isBrowser \/ ~enabled

\* the early return of afterStart()
AfterStartReturns == isBrowser \/ ~enabled \/ started

\* afterStart(); getAddrs() returns `as` when _start() is reached
AfterStart ==
  /\ inst = "ok"
  /\ IF AfterStartReturns
       THEN /\ returnedEarly' = TRUE
            /\ UNCHANGED <<started, spawned, taskVars, factoryCalls>>
       ELSE /\ started' = TRUE
            /\ UNCHANGED returnedEarly
            /\ spawned' = spawned + 1
            /\ \E as \in AddrLists :
                 /\ addrs' = as
                 /\ Loop(as, 1)
  /\ UNCHANGED <<isBrowser, inst, cfgVars, client, clients, extIpCalls, resolved, mapReqs,
                 mapped, regVars, errLog, stopLog>>

\* has close() been called on client c
CloseCalled(c) == clients[c].closeCalls > 0

\* upnpNat() resolves: this.client = <the new client>; return this.client
CreateResolves ==
  /\ pc = "creating"
  /\ clients' = Append(clients, [closeCalls |-> 0, closed |-> FALSE])
  /\ client' = <<Len(clients) + 1>>
  /\ tclient' = Len(clients) + 1
  /\ pc' = "gotClient"
  /\ UNCHANGED <<isBrowser, inst, cfgVars, started, addrs, i, publicIp, publicPort,
                 factoryCalls, extIpCalls, resolved, mapReqs, mapped, regVars, errLog,
                 hostVars, stopLog>>

\* upnpNat() rejects
CreateRejects ==
  /\ pc = "creating"
  /\ TaskFail("upnpNat")
  /\ UNCHANGED <<isBrowser, inst, cfgVars, started, client, addrs, i, gwVars, regVars,
                 hostVars, stopLog>>

\* mutant: the tests without `isPrivate == null`
Validate_NoNullTest(ip) ==
  IF isPrivateIp(ip) = "true" THEN "private" ELSE "ok"

\* the two tests of isPrivateIp(publicIp): the error thrown, or "ok"
Validate(ip) ==
  IF isPrivateIp(ip) = "true" THEN "private"
  ELSE IF isPrivateIp(ip) = "null" THEN "not an IP address"
  ELSE "ok"

\* from the public IP to the call of client.map(): the two isPrivateIp tests,
\* highPort(), and the map() request
ValidateAndMap(ip) ==
  /\ resolved' = Append(resolved, [idx |-> i, ip |-> ip])
  /\ IF Validate(ip) # "ok"
       THEN TaskFail(Validate(ip)) /\ UNCHANGED mapReqs
       ELSE
       /\ publicIp' = ip
       /\ \E r \in RandomSamples : publicPort' = highPort(MinPort, MaxPort, r)
       /\ mapReqs' = Append(mapReqs,
            [publicPort |-> publicPort',
             localPort |-> addrs[i].port,
             localAddress |-> localAddress,
             protocol |-> IF toUpperCase(addrs[i].transport) = "TCP" THEN "TCP" ELSE "UDP",
             client |-> tclient,
             idx |-> i,
             afterClose |-> CloseCalled(tclient)])
       /\ pc' = "map"
       /\ UNCHANGED <<tclient, errLog>>

\* mutant: the override is never used
UseOverride_Never == FALSE

\* the test of `this.externalAddress ?? ...`: is the left side used
UseOverride == externalAddress # <<>>

\* _start resumes with the client: this.externalAddress ?? await client.externalIp()
ClientReturned ==
  /\ pc = "gotClient"
  /\ IF UseOverride
       THEN ValidateAndMap(OrElse(externalAddress, "")) /\ UNCHANGED extIpCalls
       ELSE /\ extIpCalls' = Append(extIpCalls,
                 [client |-> tclient, idx |-> i, afterClose |-> CloseCalled(tclient)])
            /\ pc' = "externalIp"
            /\ UNCHANGED <<tclient, publicIp, publicPort, resolved, mapReqs, errLog>>
  /\ UNCHANGED <<isBrowser, inst, cfgVars, started, client, addrs, i, factoryCalls, clients,
                 mapped, regVars, hostVars, stopLog>>

\* client.externalIp() resolves with ip
ExternalIpResolves(ip) ==
  /\ pc = "externalIp"
  /\ ValidateAndMap(ip)
  /\ UNCHANGED <<isBrowser, inst, cfgVars, started, client, addrs, i, factoryCalls, clients,
                 extIpCalls, mapped, regVars, hostVars, stopLog>>

\* client.externalIp() rejects
ExternalIpRejects ==
  /\ pc = "externalIp"
  /\ TaskFail("externalIp")
  /\ UNCHANGED <<isBrowser, inst, cfgVars, started, client, addrs, i, gwVars, regVars,
                 hostVars, stopLog>>

\* client.map() resolves: addObservedAddr(fromNodeAddress(...)), then the loop goes on
MapResolves ==
  /\ pc = "map"
  /\ mapped' = Append(mapped, i)
  /\ registry' = Append(registry,
       fromNodeAddress(4, publicIp, publicPort, addrs[i].transport))
  /\ observedFor' = Append(observedFor, i)
  /\ Loop(addrs, i + 1)
  /\ UNCHANGED <<isBrowser, inst, cfgVars, started, client, addrs, clients, extIpCalls,
                 resolved, mapReqs, errLog, hostVars, stopLog>>

\* mutant: a rejected map() is caught per address and the loop goes on
MapRejects_LoopGoesOn ==
  /\ pc = "map"
  /\ errLog' = Append(errLog, "map")
  /\ Loop(addrs, i + 1)
  /\ UNCHANGED <<isBrowser, inst, cfgVars, started, client, addrs, clients, extIpCalls,
                 resolved, mapReqs, mapped, regVars, hostVars, stopLog>>

\* mutant: a rejected map() takes back the observed addresses of the run
MapRejects_RollsBack ==
  /\ pc = "map"
  /\ TaskFail("map")
  /\ registry' = <<>>
  /\ observedFor' = <<>>
  /\ UNCHANGED <<isBrowser, inst, cfgVars, started, client, addrs, i, gwVars,
                 hostVars, stopLog>>

\* client.map() rejects
MapRejects ==
  /\ pc = "map"
  /\ TaskFail("map")
  /\ UNCHANGED <<isBrowser, inst, cfgVars, started, client, addrs, i, gwVars, regVars,
                 hostVars, stopLog>>

(* -------------------------------- stop -------------------------------- *)
\* stop() calls whose close() has not settled
InFlight == { n \in 1..Len(stopLog) : stopLog[n].outcome = "pending" }

\* mutant: the early return without the `this.client == null` test
StopReturns_NoClientTest == isBrowser

\* mutant: stop() waits for the task: it returns early while the task runs
StopReturns_WhileTaskRuns ==
  isBrowser \/ client = <<>> \/ pc \in {"creating", "gotClient", "externalIp", "map"}

\* the early return of stop()
StopReturns == isBrowser \/ client = <<>>

\* the entry of stopLog for a stop() call made now
StopEntry(c, outcome) ==
  [client |-> c, afterDone |-> (pc = "done"), inFlightAtCall |-> Cardinality(InFlight),
   outcome |-> outcome]

\* stop() up to its return or its await of this.client.close(); close() on an
\* undefined client is a TypeError, which the catch logs
Stop ==
  /\ inst = "ok"
  /\ Len(stopLog) < MaxStops
  /\ IF StopReturns
       THEN /\ stopLog' = Append(stopLog, StopEntry(0, "noop"))
            /\ UNCHANGED <<clients, errLog>>
       ELSE IF client = <<>>
       THEN /\ stopLog' = Append(stopLog, StopEntry(0, "typeError"))
            /\ errLog' = Append(errLog, "close")
            /\ UNCHANGED clients
       ELSE /\ clients' = [clients EXCEPT ![client[1]].closeCalls = @ + 1]
            /\ stopLog' = Append(stopLog, StopEntry(client[1], "pending"))
            /\ UNCHANGED errLog
  /\ UNCHANGED <<isBrowser, inst, cfgVars, started, client, taskVars, factoryCalls,
                 extIpCalls, resolved, mapReqs, mapped, regVars, hostVars>>

\* mutant: stop() also resets this.started
StopCloseResolves_ResetsStarted(n) ==
  /\ n \in InFlight
  /\ client' = <<>>
  /\ started' = FALSE
  /\ clients' = [clients EXCEPT ![stopLog[n].client].closed = TRUE]
  /\ stopLog' = [stopLog EXCEPT ![n].outcome = "closed"]
  /\ UNCHANGED <<isBrowser, inst, cfgVars, taskVars, factoryCalls, extIpCalls,
                 resolved, mapReqs, mapped, regVars, errLog, hostVars>>

\* close() of stop() call n resolves: this.client = undefined
StopCloseResolves(n) ==
  /\ n \in InFlight
  /\ client' = <<>>
  /\ clients' = [clients EXCEPT ![stopLog[n].client].closed = TRUE]
  /\ stopLog' = [stopLog EXCEPT ![n].outcome = "closed"]
  /\ UNCHANGED <<isBrowser, inst, cfgVars, started, taskVars, factoryCalls, extIpCalls,
                 resolved, mapReqs, mapped, regVars, errLog, hostVars>>

\* close() of stop() call n rejects: log.error(err)
StopCloseRejects(n) ==
  /\ n \in InFlight
  /\ errLog' = Append(errLog, "close")
  /\ stopLog' = [stopLog EXCEPT ![n].outcome = "closeFailed"]
  /\ UNCHANGED <<isBrowser, inst, cfgVars, started, client, taskVars, gwVars, regVars,
                 hostVars>>

(* ---------------------------- specification --------------------------- *)
Next ==
  \/ \E init \in Inits : Construct(init)
  \/ Start
  \/ AfterStart
  \/ CreateResolves
  \/ CreateRejects
  \/ ClientReturned
  \/ \E ip \in IpStrings : ExternalIpResolves(ip)
  \/ ExternalIpRejects
  \/ MapResolves
  \/ MapRejects
  \/ Stop
  \/ \E n \in 1..MaxStops : StopCloseResolves(n)
  \/ \E n \in 1..MaxStops : StopCloseRejects(n)

Spec == Init /\ [][Next]_vars

\* a step of the mapping task: the settling of the promise it awaits
TaskStep ==
  \/ CreateResolves
  \/ CreateRejects
  \/ ClientReturned
  \/ \E ip \in IpStrings : ExternalIpResolves(ip)
  \/ ExternalIpRejects
  \/ MapResolves
  \/ MapRejects

\* every promise the task awaits settles, and the event loop then runs the task
LiveSpec == Init /\ [][Next]_vars /\ WF_vars(TaskStep)

\* the constructor alone, on every init of CtorInits
NextCtor == \E init \in CtorInits : Construct(init)

SpecCtor == Init /\ [][NextCtor]_vars

C2_DisabledIsInert ==
  (inst = "ok" /\ (~enabled \/ isBrowser)) =>
    /\ started = FALSE
    /\ spawned = 0
    /\ pc = "none"
    /\ factoryCalls = 0
    /\ clients = <<>>
    /\ client = <<>>
    /\ extIpCalls = <<>>
    /\ mapReqs = <<>>
    /\ registry = <<>>
    /\ \A n \in DOMAIN stopLog : stopLog[n].outcome = "noop"

C2_Witness ==
  /\ inst = "ok" /\ ~enabled /\ ~isBrowser
  /\ returnedEarly
  /\ Len(stopLog) >= 2

\* C3: at most one mapping task is launched per instance: started is true
\* exactly when the one task has been launched, so it never goes back to
\* false and no later afterStart() launches another.
C3_OneAttempt ==
  /\ spawned <= 1
  /\ started = (spawned = 1)
  /\ (pc # "none") = started

C3_Witness ==
  /\ started /\ pc = "done"
  /\ returnedEarly
  /\ \E n \in DOMAIN stopLog : stopLog[n].outcome = "closed"

\* a thin-waist, TCP, non-loopback, IPv4 address, as the claims word it
C4_Ok(a) ==
  a.thinWaist /\ a.transport = "tcp" /\ a.host \notin {"127.0.0.1", "::1"} /\ a.family = 4

\* C4: only thin-waist, TCP, non-loopback, IPv4 addresses lead to a factory
\* call, an externalIp() call, a map() call or an observed address; when no
\* address is eligible no client is created.
C4_OnlyEligibleAddresses ==
  /\ \A n \in DOMAIN extIpCalls : C4_Ok(addrs[extIpCalls[n].idx])
  /\ \A n \in DOMAIN resolved : C4_Ok(addrs[resolved[n].idx])
  /\ \A n \in DOMAIN mapReqs : C4_Ok(addrs[mapReqs[n].idx])
  /\ \A n \in DOMAIN mapped : C4_Ok(addrs[mapped[n]])
  /\ \A n \in DOMAIN observedFor : C4_Ok(addrs[observedFor[n]])
  /\ factoryCalls <= Cardinality({ j \in DOMAIN addrs : j <= i /\ C4_Ok(addrs[j]) })
  /\ (pc \notin {"none", "done", "failed"} => (i \in DOMAIN addrs /\ C4_Ok(addrs[i])))
  /\ ((\A j \in DOMAIN addrs : ~C4_Ok(addrs[j])) =>
        /\ factoryCalls = 0 /\ clients = <<>> /\ client = <<>>
        /\ pc \in {"none", "done"})

C4_Witness ==
  /\ pc = "done"
  /\ Len(addrs) = 2 /\ ~C4_Ok(addrs[1]) /\ C4_Ok(addrs[2])
  /\ observedFor = <<2>>

\* C5: with an externalAddress override externalIp() is never called, and the
\* override is the public IP of every address.
C5_OverrideSkipsExternalIp ==
  (inst = "ok" /\ externalAddress # <<>>) =>
    /\ extIpCalls = <<>>
    /\ pc # "externalIp"
    /\ \A n \in DOMAIN resolved : resolved[n].ip = externalAddress[1]
    /\ \A n \in DOMAIN registry : registry[n].address = externalAddress[1]
    /\ (pc = "map" => publicIp = externalAddress[1])

C5_Witness ==
  /\ externalAddress # <<>>
  /\ Len(registry) = 2
  /\ \E n \in DOMAIN stopLog : stopLog[n].outcome = "closed" /\ ~stopLog[n].afterDone

\* a public IP that is private-range or no IP address
C6_Bad(ip) == ip \in PrivateIps \cup NotIps

\* C6: when the public IP of an address is private or no IP address, the run
\* ends there: no map() call and no observed address for that address or a
\* later one.
C6_BadPublicIpAborts ==
  \A n \in DOMAIN resolved :
    C6_Bad(resolved[n].ip) =>
      /\ pc = "failed"
      /\ n = Len(resolved)
      /\ i = resolved[n].idx
      /\ \A m \in DOMAIN mapReqs : mapReqs[m].idx < resolved[n].idx
      /\ \A m \in DOMAIN extIpCalls : extIpCalls[m].idx <= resolved[n].idx
      /\ \A m \in DOMAIN observedFor : observedFor[m] < resolved[n].idx

C6_Witness ==
  /\ Len(resolved) = 1 /\ C6_Bad(resolved[1].ip)
  /\ Len(addrs) = 2 /\ C4_Ok(addrs[1]) /\ C4_Ok(addrs[2])
  /\ pc = "failed" /\ registry = <<>>

\* C7: each address whose map() succeeded has exactly one observed address:
\* family 4, the public IP found for it, tcp, and the port of its map()
\* request, which is in 1024..65535; a completed run has as many observed
\* addresses as eligible addresses.
C7_ObservedAddressPerMapping ==
  /\ observedFor = mapped
  /\ \A a, b \in DOMAIN observedFor : a # b => observedFor[a] # observedFor[b]
  /\ \A n \in DOMAIN registry :
       /\ registry[n].family = 4
       /\ registry[n].transport = "tcp"
       /\ registry[n].port \in 1024..65535
       /\ \E k \in DOMAIN resolved :
            resolved[k].idx = observedFor[n] /\ resolved[k].ip = registry[n].address
       /\ Cardinality({ m \in DOMAIN mapReqs : mapReqs[m].idx = observedFor[n] }) = 1
       /\ \A m \in DOMAIN mapReqs :
            mapReqs[m].idx = observedFor[n] => mapReqs[m].publicPort = registry[n].port
  /\ \A m \in DOMAIN mapReqs : mapReqs[m].publicPort \in 1024..65535
  /\ (pc = "done" =>
        Len(registry) = Cardinality({ j \in DOMAIN addrs : C4_Ok(addrs[j]) }))

C7_Witness ==
  /\ pc = "done"
  /\ Len(registry) = 2
  /\ registry[1].port # registry[2].port
  /\ registry[1].address = "203.0.113.7"

\* C8 (as claimed): a stop() made after the run succeeded, with no other stop()
\* in flight, that finds a client calls close() on it, that client gets no
\* other close() call, and a stop() made after it returned does nothing.
C8_StopClosesOnce ==
  \A a, b \in DOMAIN stopLog :
    ( /\ a < b
      /\ stopLog[a].afterDone /\ stopLog[a].inFlightAtCall = 0
      /\ stopLog[a].client # 0
      /\ stopLog[a].outcome # "pending"
      /\ stopLog[b].inFlightAtCall = 0 ) =>
        /\ stopLog[b].outcome = "noop"
        /\ clients[stopLog[a].client].closeCalls = 1

\* C9: a stop() made when no client was ever created calls nothing, changes
\* nothing and does not fail.
C9_StopWithoutClientIsNoop ==
  [][ (Len(stopLog') = Len(stopLog) + 1 /\ clients = <<>>) =>
        /\ stopLog'[Len(stopLog')].outcome = "noop"
        /\ stopLog'[Len(stopLog')].client = 0
        /\ UNCHANGED <<isBrowser, inst, cfgVars, started, client, taskVars, gwVars,
                       regVars, errLog, hostVars>> ]_vars

C9_Witness ==
  /\ started /\ pc = "done" /\ clients = <<>> /\ Len(addrs) = 2
  /\ Len(stopLog) >= 1
  /\ \A n \in DOMAIN stopLog : stopLog[n].outcome = "noop"

\* C10 (as claimed): when a stop() that found a client returns, whether its
\* close() resolved or rejected, the manager holds no client.
C10_StopClearsClient ==
  [][ (\E n \in DOMAIN stopLog :
         stopLog[n].outcome = "pending" /\ stopLog'[n].outcome # "pending") =>
        client' = <<>> ]_vars

\* the errors of the mapping task that reached log.error()
TaskErrors == SelectSeq(errLog, LAMBDA e : e # "close")

\* C11: a failure of the mapping task never reaches the caller of
\* afterStart(): afterStart() has returned while the task is still awaiting,
\* a failed task has logged exactly one error and an unfailed one none, the
\* manager is started as usual, and stop() can still be called and closes the
\* client the failed task left.
C11_TaskFailureOnlyLogged ==
  /\ (pc = "failed") = (Len(TaskErrors) = 1)
  /\ Len(TaskErrors) <= 1
  /\ (pc = "failed" =>
        /\ inst = "ok" /\ started /\ spawned = 1
        /\ errLog # <<>>
        /\ (Len(stopLog) < MaxStops => ENABLED Stop)
        /\ ((Len(stopLog) < MaxStops /\ client # <<>>) =>
              ENABLED (Stop /\ clients'[client[1]].closeCalls
                                 = clients[client[1]].closeCalls + 1)))

C11_Witness ==
  /\ pc = "failed" /\ errLog = <<"externalIp">>
  /\ client = <<1>> /\ stopLog = <<>>

\* C12 (as claimed): the client factory is invoked at most once per instance
\* and every map() request of the run goes to that one client.
C12_ClientCreatedOnce ==
  /\ factoryCalls <= 1
  /\ Len(clients) <= 1
  /\ \A m \in DOMAIN mapReqs : mapReqs[m].client = 1

\* C13 (as claimed): once a stop() call has returned the manager holds no
\* client, and no client is left that close() was never called on.
C13_NothingAfterStop ==
  (\E n \in DOMAIN stopLog : stopLog[n].outcome # "pending") =>
    /\ client = <<>>
    /\ \A c \in DOMAIN clients : clients[c].closeCalls > 0

\* C14: an observed address is added only for an address whose map() has
\* resolved; no address gets a second map() request; after a map() rejection
\* the run is over at that address, which has no observed address, and no
\* later address has an externalIp() call, a map() request or an observed
\* address.
C14_MapFailureEndsRun ==
  /\ \A n \in DOMAIN observedFor : \E k \in DOMAIN mapped : mapped[k] = observedFor[n]
  /\ \A a, b \in DOMAIN mapReqs : a # b => mapReqs[a].idx # mapReqs[b].idx
  /\ Len(mapped) <= Len(mapReqs)
  /\ \A k \in DOMAIN mapped : mapReqs[k].idx = mapped[k]
  /\ (pc = "map" => \A n \in DOMAIN observedFor : observedFor[n] # i)
  /\ ((\E e \in DOMAIN errLog : errLog[e] = "map") =>
        /\ pc = "failed"
        /\ mapReqs # <<>> /\ mapReqs[Len(mapReqs)].idx = i
        /\ Len(mapped) = Len(mapReqs) - 1
        /\ \A n \in DOMAIN observedFor : observedFor[n] < i
        /\ \A n \in DOMAIN extIpCalls : extIpCalls[n].idx <= i
        /\ \A n \in DOMAIN resolved : resolved[n].idx <= i
        /\ Len(SelectSeq(errLog, LAMBDA e : e = "map")) = 1)

C14_Witness ==
  /\ pc = "failed" /\ errLog = <<"map">>
  /\ Len(addrs) = 2 /\ C4_Ok(addrs[1]) /\ C4_Ok(addrs[2])
  /\ i = 1 /\ Len(mapReqs) = 1 /\ registry = <<>>

\* C15: stop() and the mapping task are not synchronized.  While the task is
\* awaiting with the client that this.client holds, stop() can call close()
\* on that client; and a task holding a client that close() was called on
\* still goes on: it can call externalIp() or map() on it (unless the
\* override is no public IP), and when map() resolves it adds the observed
\* address.  A call on a client after close()
\* is only ever due to a stop() that found that client.
C15_StopNotSynchronized ==
  /\ ( /\ inst = "ok" /\ ~isBrowser
       /\ pc \in {"gotClient", "externalIp", "map"}
       /\ client = <<tclient>>
       /\ Len(stopLog) < MaxStops ) =>
         ENABLED (Stop /\ clients'[tclient].closeCalls > clients[tclient].closeCalls
                       /\ pc' = pc)
  /\ ( /\ pc = "gotClient" /\ CloseCalled(tclient)
       /\ (externalAddress = <<>> \/ externalAddress[1] \in PublicIps) ) =>
         ENABLED (ClientReturned /\ pc' \in {"externalIp", "map"})
  /\ ((pc = "externalIp" /\ CloseCalled(tclient)) =>
         ENABLED ((\E ip \in IpStrings : ExternalIpResolves(ip)) /\ pc' = "map"))
  /\ ((pc = "map" /\ CloseCalled(tclient)) =>
         ENABLED (MapResolves /\ Len(registry') = Len(registry) + 1))
  /\ \A m \in DOMAIN mapReqs :
       mapReqs[m].afterClose =>
         \E n \in DOMAIN stopLog : stopLog[n].client = mapReqs[m].client
  /\ \A m \in DOMAIN extIpCalls :
       extIpCalls[m].afterClose =>
         \E n \in DOMAIN stopLog : stopLog[n].client = extIpCalls[m].client

C15_Witness ==
  \E m \in DOMAIN mapReqs :
    /\ mapReqs[m].afterClose
    /\ \E x \in DOMAIN extIpCalls :
         extIpCalls[x].idx = mapReqs[m].idx /\ extIpCalls[x].afterClose
    /\ \E k \in DOMAIN observedFor : observedFor[k] = mapReqs[m].idx
    /\ clients[mapReqs[m].client].closed

\* C16: a launched mapping task ends, done or failed, when every promise it
\* awaits settles; it goes through the addresses in order, each at most once
\* (the index never goes back and each request is for a later address than
\* the one before), and once ended it never runs again.
C16_TaskTerminates ==
  /\ (pc \in {"creating", "gotClient", "externalIp", "map"}) ~> (pc \in {"done", "failed"})
  /\ [][ /\ i' >= i
         /\ (pc # "none" => addrs' = addrs)
         /\ (pc \in {"done", "failed"} => (pc' = pc /\ i' = i /\ spawned' = spawned))
         /\ ((Len(mapReqs') > Len(mapReqs) /\ mapReqs # <<>>) =>
               mapReqs'[Len(mapReqs')].idx > mapReqs[Len(mapReqs)].idx)
         /\ ((Len(extIpCalls') > Len(extIpCalls) /\ extIpCalls # <<>>) =>
               extIpCalls'[Len(extIpCalls')].idx > extIpCalls[Len(extIpCalls)].idx)
       ]_vars

C16_Witness ==
  /\ pc = "done" /\ mapped = <<1, 2>>
  /\ Len(stopLog) >= 1

\* C17: every map() request has the port of the bound address it is for as
\* localPort, the configured localAddress (unset when none is configured) as
\* localAddress, and protocol TCP: no UDP request is made.
C17_MapRequestFields ==
  \A m \in DOMAIN mapReqs :
    /\ mapReqs[m].idx \in DOMAIN addrs
    /\ mapReqs[m].localPort = addrs[mapReqs[m].idx].port
    /\ mapReqs[m].localAddress = localAddress
    /\ mapReqs[m].protocol = "TCP"
    /\ addrs[mapReqs[m].idx].transport = "tcp"

C17_Witness ==
  /\ localAddress = <<"192.168.1.10">>
  /\ Len(addrs) = 2 /\ addrs[1].port = 4004
  /\ Len(mapReqs) = 1 /\ mapReqs[1].idx = 2 /\ mapReqs[1].localPort = 4001

\* C18: a run that failed took nothing back: every eligible address before
\* the one it failed at still has its mapping and its observed address, and
\* a client the run created stays the manager's client, with no close() call,
\* as long as no stop() has found it.
C18_AbortRollsNothingBack ==
  pc = "failed" =>
    /\ { observedFor[n] : n \in DOMAIN observedFor }
         = { j \in DOMAIN addrs : j < i /\ C4_Ok(addrs[j]) }
    /\ Len(registry) = Len(observedFor)
    /\ mapped = observedFor
    /\ Len(registry) = Cardinality({ j \in DOMAIN addrs : j < i /\ C4_Ok(addrs[j]) })
    /\ ((clients # <<>> /\ \A n \in DOMAIN stopLog : stopLog[n].client = 0) =>
          /\ Len(clients) = 1
          /\ client = <<1>>
          /\ clients[1].closeCalls = 0 /\ ~clients[1].closed)
    /\ (client # <<>> => client = <<Len(clients)>>)

C18_Witness ==
  /\ pc = "failed" /\ i = 2
  /\ Len(registry) = 1 /\ mapped = <<1>>
  /\ client = <<1>> /\ clients[1].closeCalls = 0
  /\ stopLog = <<>>

\* C19: stop() can be called in every state of the instance, and no step of a
\* stop() call changes started, the configuration, the task or the address
\* registry; so once started, afterStart() returns early, after stop() too.
C19_StopTouchesOnlyClient ==
  /\ [][ stopLog' # stopLog =>
           UNCHANGED <<isBrowser, inst, cfgVars, started, taskVars, factoryCalls,
                       extIpCalls, resolved, mapReqs, mapped, regVars, hostVars>> ]_vars
  /\ []((inst = "ok" /\ Len(stopLog) < MaxStops) => ENABLED Stop)
  /\ []((started /\ stopLog # <<>>) =>
          ENABLED (AfterStart /\ returnedEarly' /\ spawned' = spawned /\ pc' = pc))

C19_Witness ==
  /\ started /\ pc = "done"
  /\ Len(registry) = 2
  /\ client = <<>>
  /\ \E n \in DOMAIN stopLog : stopLog[n].outcome = "closed" /\ stopLog[n].afterDone
  /\ returnedEarly

\* C20 (as claimed): close() is called at most once on any client.
C20_CloseAtMostOnce ==
  \A c \in DOMAIN clients : clients[c].closeCalls <= 1

====
